---- MODULE Spec2Model ----
(***************************************************************************)
(* Broker Claims Dashboard (src/app.py): one run of the Streamlit script.  *)
(*                                                                         *)
(* The script reads synthetic_claims_data.csv, cleans it (load_data),      *)
(* computes four KPIs, draws four charts, shows a formatted copy of the    *)
(* table, and handles FileNotFoundError / Exception around all of it.      *)
(*                                                                         *)
(* Values.  A cell of a DataFrame is an option: Null (NaN / NaT / None)    *)
(* or Some(v).  Text that the program parses or produces (dates, amounts)  *)
(* is a sequence of one-character strings, so that parsing and formatting  *)
(* are computed and not assumed.  Category text (ClaimStatus, CauseOfLoss, *)
(* Location, ClaimNumber) is only compared for equality and is a string.   *)
(* Amounts are integers (the token pools hold integer literals only).      *)
(***************************************************************************)
EXTENDS Integers, Sequences, FiniteSets, TLC

VARIABLES
    file,              \* the data source on disk: [exists, columns, rows]
    strictDates,       \* TRUE: the installed pandas parses a date column with one inferred format
    pc,                \* position of the script
    heap,              \* DataFrame objects, by reference (index into this sequence)
    df,                \* reference held by the global `df` (0 = unbound)
    display_df,        \* reference held by `display_df` (0 = unbound)
    loaded,            \* snapshot of the frame load_data returned (history variable)
    kpi,               \* total_incurred, total_paid, total_open_claims, avg_cost_per_open_claim
    cause_summary,     \* line 94
    status_counts,     \* line 113
    location_summary,  \* line 129
    year_summary,      \* line 148
    rendered,          \* Streamlit elements emitted inside the try block, in order
    exc,               \* the exception that left the try block, if any
    loadCalls          \* number of times load_data was entered

vars == <<file, strictDates, pc, heap, df, display_df, loaded, kpi, cause_summary,
          status_counts, location_summary, year_summary, rendered, exc, loadCalls>>

----------------------------------------------------------------------------
(* Bounds *)

MaxRows == 3          \* rows per file in the general specification
MaxTopRows == 6       \* rows per file in the grouping specification

----------------------------------------------------------------------------
(* Options *)

Null == <<>>
Some(v) == <<v>>
IsNull(c) == c = <<>>
Val(c) == c[1]

----------------------------------------------------------------------------
(* Text *)

Digits == {"0", "1", "2", "3", "4", "5", "6", "7", "8", "9"}

DigitVal(c) ==
    CASE c = "0" -> 0 [] c = "1" -> 1 [] c = "2" -> 2 [] c = "3" -> 3 [] c = "4" -> 4
      [] c = "5" -> 5 [] c = "6" -> 6 [] c = "7" -> 7 [] c = "8" -> 8 [] c = "9" -> 9

DigitChar(n) ==
    CASE n = 0 -> "0" [] n = 1 -> "1" [] n = 2 -> "2" [] n = 3 -> "3" [] n = 4 -> "4"
      [] n = 5 -> "5" [] n = 6 -> "6" [] n = 7 -> "7" [] n = 8 -> "8" [] n = 9 -> "9"

AllDigits(s) == Len(s) > 0 /\ \A i \in 1..Len(s) : s[i] \in Digits

RECURSIVE DigitsVal(_)
DigitsVal(s) ==
    IF s = <<>> THEN 0
    ELSE 10 * DigitsVal(SubSeq(s, 1, Len(s) - 1)) + DigitVal(s[Len(s)])

----------------------------------------------------------------------------
(* The columns *)

FileColumns ==
    <<"ClaimNumber", "ClaimStatus", "DateOfLoss", "DateReported", "CauseOfLoss",
      "Location", "PaidIndemnity", "PaidExpense", "ReserveIndemnity", "ReserveExpense">>

financial_cols == <<"PaidIndemnity", "PaidExpense", "ReserveIndemnity", "ReserveExpense">>

money_display_cols ==
    <<"PaidIndemnity", "PaidExpense", "ReserveIndemnity", "ReserveExpense",
      "TotalIncurred", "TotalPaid">>

column_order ==
    <<"ClaimNumber", "ClaimStatus", "DateOfLoss", "DateReported",
      "CauseOfLoss", "Location", "LossYear",
      "TotalIncurred", "TotalPaid",
      "PaidIndemnity", "PaidExpense", "ReserveIndemnity", "ReserveExpense">>

TopN == 5

Range(s) == {s[i] : i \in 1..Len(s)}

----------------------------------------------------------------------------
(* DataFrames: [columns |-> sequence of names, dtypes |-> name -> dtype,   *)
(* rows |-> sequence of functions name -> cell]                            *)

HasColumn(frame, c) == c \in Range(frame.columns)

Column(frame, c) == [i \in 1..Len(frame.rows) |-> frame.rows[i][c]]

\* df[c] = values : replaces the column in place, or appends a new one
SetColumn(frame, c, values, dtype) ==
    [columns |-> IF HasColumn(frame, c) THEN frame.columns ELSE Append(frame.columns, c),
     dtypes  |-> (c :> dtype) @@ frame.dtypes,
     rows    |-> [i \in 1..Len(frame.rows) |-> (c :> values[i]) @@ frame.rows[i]]]

\* an exception: its class, str(e), and the line of the try block it left
NoException == <<>>
Raised(type, msg, line) == <<[type |-> type, msg |-> msg, line |-> line]>>

----------------------------------------------------------------------------
(* pd.read_csv: a missing file raises FileNotFoundError; the default       *)
(* na_values turn a blank field or "N/A" into NaN.  Type inference of the  *)
(* numeric columns is folded into to_numeric below: a numeric-looking      *)
(* field reaches line 29 as a number or as text, and gets the same value.  *)

NaText == {"", "N/A"}
NaChars == {<<>>, <<"N", "/", "A">>}
ParsedColumns == {"DateOfLoss", "DateReported", "PaidIndemnity", "PaidExpense",
                  "ReserveIndemnity", "ReserveExpense"}

ReadCell(c, tok) ==
    IF c \in ParsedColumns
    THEN (IF tok \in NaChars THEN Null ELSE Some(tok))
    ELSE (IF tok \in NaText THEN Null ELSE Some(tok))

read_csv(f) ==
    [columns |-> f.columns,
     dtypes  |-> [c \in Range(f.columns) |-> "object"],
     rows    |-> [i \in 1..Len(f.rows) |->
                    [c \in Range(f.columns) |-> ReadCell(c, f.rows[i][c])]]]

----------------------------------------------------------------------------
(* pd.to_datetime(column, errors='coerce')                                 *)
(* Two layouts occur in the token pools: YYYY-MM-DD and MM/DD/YYYY.        *)

IsLeap(y) == (y % 4 = 0 /\ y % 100 # 0) \/ y % 400 = 0

DaysInMonth(y, m) ==
    IF m = 2 THEN (IF IsLeap(y) THEN 29 ELSE 28)
    ELSE IF m \in {4, 6, 9, 11} THEN 30 ELSE 31

MkDate(y, m, d) ==
    IF m \in 1..12 /\ d >= 1 /\ d <= DaysInMonth(y, m) /\ y >= 1
    THEN Some([y |-> y, m |-> m, d |-> d])
    ELSE Null

\* strptime with %Y-%m-%d
ParseIso(s) ==
    IF /\ Len(s) = 10
       /\ s[5] = "-" /\ s[8] = "-"
       /\ AllDigits(SubSeq(s, 1, 4)) /\ AllDigits(SubSeq(s, 6, 7)) /\ AllDigits(SubSeq(s, 9, 10))
    THEN MkDate(DigitsVal(SubSeq(s, 1, 4)), DigitsVal(SubSeq(s, 6, 7)), DigitsVal(SubSeq(s, 9, 10)))
    ELSE Null

\* strptime with %m/%d/%Y
ParseUs(s) ==
    IF /\ Len(s) = 10
       /\ s[3] = "/" /\ s[6] = "/"
       /\ AllDigits(SubSeq(s, 1, 2)) /\ AllDigits(SubSeq(s, 4, 5)) /\ AllDigits(SubSeq(s, 7, 10))
    THEN MkDate(DigitsVal(SubSeq(s, 7, 10)), DigitsVal(SubSeq(s, 1, 2)), DigitsVal(SubSeq(s, 4, 5)))
    ELSE Null

ParseWith(fmt, s) == IF fmt = "iso" THEN ParseIso(s) ELSE ParseUs(s)

\* per-element parsing (dateutil): whichever layout the text has
ParseAny(s) == IF ~IsNull(ParseIso(s)) THEN ParseIso(s) ELSE ParseUs(s)

\* the layout pandas infers from one text, "none" when it cannot
GuessFormat(s) ==
    IF ~IsNull(ParseIso(s)) THEN "iso"
    ELSE IF ~IsNull(ParseUs(s)) THEN "us"
    ELSE "none"

\* index of the first non-null cell of a column, 0 when there is none
FirstNonNull(cells) ==
    IF \E i \in 1..Len(cells) : ~IsNull(cells[i])
    THEN CHOOSE i \in 1..Len(cells) :
            ~IsNull(cells[i]) /\ \A j \in 1..(i - 1) : IsNull(cells[j])
    ELSE 0

\* The layout applied to the whole column.  pandas >= 2.0 infers it from
\* the first non-null element and parses every element with it; when it
\* cannot infer one, and in pandas < 2.0, each element is parsed on its own.
ColumnFormat(cells, strict) ==
    IF strict /\ FirstNonNull(cells) # 0
    THEN GuessFormat(Val(cells[FirstNonNull(cells)]))
    ELSE "none"

DateCell(fmt, cell) ==
    IF IsNull(cell) THEN Null
    ELSE IF fmt = "none" THEN ParseAny(Val(cell))
    ELSE ParseWith(fmt, Val(cell))

\* errors='coerce': a text that does not parse becomes NaT
to_datetime(cells, strict) ==
    [i \in 1..Len(cells) |-> DateCell(ColumnFormat(cells, strict), cells[i])]

----------------------------------------------------------------------------
(* pd.to_numeric(column, errors=...)                                       *)

IsIntLiteral(s) ==
    \/ AllDigits(s)
    \/ Len(s) > 1 /\ s[1] = "-" /\ AllDigits(Tail(s))

IntLiteralVal(s) == IF s[1] = "-" THEN 0 - DigitsVal(Tail(s)) ELSE DigitsVal(s)

NumericCell(cell) ==
    IF IsNull(cell) THEN Null
    ELSE IF IsIntLiteral(Val(cell)) THEN Some(IntLiteralVal(Val(cell)))
    ELSE Null

Unparseable(cell) == ~IsNull(cell) /\ ~IsIntLiteral(Val(cell))

\* [raised, values]: errors='raise' raises ValueError on the first text that
\* is not a number, errors='coerce' turns it into NaN
to_numeric(cells, errors) ==
    [raised |-> errors = "raise" /\ \E i \in 1..Len(cells) : Unparseable(cells[i]),
     values |-> [i \in 1..Len(cells) |-> NumericCell(cells[i])]]

fillna(cells, v) == [i \in 1..Len(cells) |-> IF IsNull(cells[i]) THEN Some(v) ELSE cells[i]]

\* elementwise +, NaN if either side is NaN
AddCell(a, b) == IF IsNull(a) \/ IsNull(b) THEN Null ELSE Some(Val(a) + Val(b))

AddColumns(xs, ys) == [i \in 1..Len(xs) |-> AddCell(xs[i], ys[i])]

\* variant: NaT read as the epoch
YearOf_Epoch(cells) ==
    [i \in 1..Len(cells) |-> IF IsNull(cells[i]) THEN Some(1970) ELSE Some(Val(cells[i]).y)]

\* Series.dt.year
YearOf(cells) == [i \in 1..Len(cells) |-> IF IsNull(cells[i]) THEN Null ELSE Some(Val(cells[i]).y)]

----------------------------------------------------------------------------
(* load_data, lines 17-43.  The result is [exc, frame]: exc is the         *)
(* exception that left the function (NoException when it returned).        *)

EmptyFrame == [columns |-> <<>>, dtypes |-> <<>>, rows |-> <<>>]

Failure(type, msg) == [exc |-> Raised(type, msg, 47), frame |-> EmptyFrame]
Success(frame) == [exc |-> NoException, frame |-> frame]

\* line 23 / line 24: df[c] = pd.to_datetime(df[c], errors='coerce')
ConvertDate(frame, c, strict) ==
    SetColumn(frame, c, to_datetime(Column(frame, c), strict), "datetime64")

\* variant: .fillna(0) left out
CoerceNumeric_NoFill(cells) == to_numeric(cells, "coerce").values

\* line 29: df[col] = pd.to_numeric(df[col], errors='coerce').fillna(0)
CoerceNumeric(cells) == fillna(to_numeric(cells, "coerce").values, 0)

\* variant: errors='raise'
NumericRaises_Strict(cells) == to_numeric(cells, "raise").raised

NumericRaises(cells) == to_numeric(cells, "coerce").raised

\* lines 28-29: the loop over financial_cols, from position k on
RECURSIVE FinancialLoop(_, _)
FinancialLoop(frame, k) ==
    IF k > Len(financial_cols) THEN Success(frame)
    ELSE IF ~HasColumn(frame, financial_cols[k]) THEN Failure("KeyError", financial_cols[k])
    ELSE IF NumericRaises(Column(frame, financial_cols[k]))
         THEN Failure("ValueError", financial_cols[k])
    ELSE FinancialLoop(
            SetColumn(frame, financial_cols[k],
                      CoerceNumeric(Column(frame, financial_cols[k])), "float64"),
            k + 1)

\* lines 32-37
TotalIncurredOf(frame) ==
    AddColumns(AddColumns(AddColumns(Column(frame, "PaidIndemnity"),
                                     Column(frame, "PaidExpense")),
                          Column(frame, "ReserveIndemnity")),
               Column(frame, "ReserveExpense"))

\* variant: a reserve column in place of PaidExpense
TotalPaidOf_WithReserve(frame) ==
    AddColumns(Column(frame, "PaidIndemnity"), Column(frame, "ReserveIndemnity"))

\* line 38
TotalPaidOf(frame) == AddColumns(Column(frame, "PaidIndemnity"), Column(frame, "PaidExpense"))

\* lines 32-41
FeatureEngineering(frame) ==
    LET f1 == SetColumn(frame, "TotalIncurred", TotalIncurredOf(frame), "float64")
        f2 == SetColumn(f1, "TotalPaid", TotalPaidOf(f1), "float64")
    IN  SetColumn(f2, "LossYear", YearOf(Column(f2, "DateOfLoss")), "float64")

load_data(f, strict) ==
    IF ~f.exists THEN Failure("FileNotFoundError", "synthetic_claims_data.csv")
    ELSE LET d0 == read_csv(f) IN
         IF ~HasColumn(d0, "DateOfLoss") THEN Failure("KeyError", "DateOfLoss")
         ELSE LET d1 == ConvertDate(d0, "DateOfLoss", strict) IN
         IF ~HasColumn(d1, "DateReported") THEN Failure("KeyError", "DateReported")
         ELSE LET d2 == ConvertDate(d1, "DateReported", strict)
                  r  == FinancialLoop(d2, 1)
              IN  IF r.exc # NoException THEN r
                  ELSE Success(FeatureEngineering(r.frame))

----------------------------------------------------------------------------
(* Aggregation *)

\* Series.sum(): NaN is skipped
RECURSIVE SumCells(_)
SumCells(cells) ==
    IF Len(cells) = 0 THEN 0
    ELSE (IF IsNull(cells[Len(cells)]) THEN 0 ELSE Val(cells[Len(cells)]))
         + SumCells(SubSeq(cells, 1, Len(cells) - 1))

\* df[df[c] == v]: the rows whose cell equals v (NaN equals nothing)
Filter(frame, c, v) ==
    [frame EXCEPT !.rows = SelectSeq(frame.rows, LAMBDA r : r[c] = Some(v))]

RECURSIVE Gcd(_, _)
Gcd(a, b) == IF b = 0 THEN a ELSE Gcd(b, a % b)

Abs(n) == IF n < 0 THEN 0 - n ELSE n

\* a / b as a reduced fraction (b > 0)
Quotient(a, b) ==
    LET g == Gcd(Abs(a), b)
    IN  [num |-> a \div g, den |-> b \div g]

Whole(n) == [num |-> n, den |-> 1]

\* the sum is a numpy scalar: dividing it by zero gives nan or inf (den = 0
\* here) and a warning, not ZeroDivisionError
NotFinite == [num |-> 0, den |-> 0]

Divide(a, b) == IF b = 0 THEN NotFinite ELSE Quotient(a, b)

\* variant: the division without its guard
AvgCost_Unguarded(open_claims_incurred, total_open_claims) ==
    Divide(open_claims_incurred, total_open_claims)

\* line 56
AvgCost(open_claims_incurred, total_open_claims) ==
    IF total_open_claims > 0
    THEN Divide(open_claims_incurred, total_open_claims)
    ELSE Whole(0)

\* lines 50-56
ComputeKpis(frame) ==
    LET open == Filter(frame, "ClaimStatus", "Open")
        total_open_claims == Len(open.rows)
        open_claims_incurred == SumCells(Column(open, "TotalIncurred"))
    IN  [total_incurred |-> SumCells(Column(frame, "TotalIncurred")),
         total_paid |-> SumCells(Column(frame, "TotalPaid")),
         total_open_claims |-> total_open_claims,
         avg_cost_per_open_claim |-> AvgCost(open_claims_incurred, total_open_claims)]

\* df.groupby(key)[col].sum(): one entry per non-null key (dropna=True),
\* as a function key -> sum
GroupKeys(frame, key) ==
    {Val(frame.rows[i][key]) : i \in {j \in 1..Len(frame.rows) : ~IsNull(frame.rows[j][key])}}

GroupSum(frame, key, col) ==
    [g \in GroupKeys(frame, key) |-> SumCells(Column(Filter(frame, key, g), col))]

\* Series.sort_values(ascending=False): every order of the entries that is
\* descending by value; which one among equal values is left to the sort
RECURSIVE SortValuesDesc(_)
SortValuesDesc(series) ==
    IF DOMAIN series = {} THEN {<<>>}
    ELSE UNION {
           {<<[key |-> g, value |-> series[g]]>> \o rest :
               rest \in SortValuesDesc([h \in DOMAIN series \ {g} |-> series[h]])} :
           g \in {h \in DOMAIN series : \A k \in DOMAIN series : series[h] >= series[k]}}

\* variant: no cut
head_All(entries, n) == entries

\* Series.head(n)
head(entries, n) == SubSeq(entries, 1, IF Len(entries) < n THEN Len(entries) ELSE n)

\* variant: descending by key
RECURSIVE SortIndex_Descending(_)
SortIndex_Descending(series) ==
    IF DOMAIN series = {} THEN <<>>
    ELSE LET g == CHOOSE h \in DOMAIN series : \A k \in DOMAIN series : h >= k
         IN  <<[key |-> g, value |-> series[g]]>>
             \o SortIndex_Descending([h \in DOMAIN series \ {g} |-> series[h]])

\* Series.sort_index(): ascending by key
RECURSIVE SortIndex(_)
SortIndex(series) ==
    IF DOMAIN series = {} THEN <<>>
    ELSE LET g == CHOOSE h \in DOMAIN series : \A k \in DOMAIN series : h <= k
         IN  <<[key |-> g, value |-> series[g]]>>
             \o SortIndex([h \in DOMAIN series \ {g} |-> series[h]])

\* df[c].value_counts(): NaN is dropped
ValueCounts(frame, c) ==
    [g \in GroupKeys(frame, c) |-> Len(Filter(frame, c, g).rows)]

----------------------------------------------------------------------------
(* Display formatting, lines 170-189 *)

RECURSIVE PlainDigits(_)
PlainDigits(n) ==
    IF n < 10 THEN <<DigitChar(n)>>
    ELSE Append(PlainDigits(n \div 10), DigitChar(n % 10))

RECURSIVE ZeroPad(_, _)
ZeroPad(s, width) == IF Len(s) >= width THEN s ELSE ZeroPad(<<"0">> \o s, width)

\* the "," option of format(): groups of three digits
RECURSIVE GroupedDigits(_)
GroupedDigits(n) ==
    IF n < 1000 THEN PlainDigits(n)
    ELSE GroupedDigits(n \div 1000) \o <<",">> \o ZeroPad(PlainDigits(n % 1000), 3)

\* f"${x:,.0f}"
FormatMoney(x) ==
    <<"$">> \o (IF x < 0 THEN <<"-">> ELSE <<>>) \o GroupedDigits(Abs(x))

MoneyCell(cell) ==
    IF IsNull(cell) THEN Some(<<"$", "n", "a", "n">>) ELSE Some(FormatMoney(Val(cell)))

\* Series.dt.strftime('%Y-%m-%d'): NaT gives NaN
StrftimeCell(cell) ==
    IF IsNull(cell) THEN Null
    ELSE Some(ZeroPad(PlainDigits(Val(cell).y), 4) \o <<"-">>
              \o ZeroPad(PlainDigits(Val(cell).m), 2) \o <<"-">>
              \o ZeroPad(PlainDigits(Val(cell).d), 2))

MapColumn(frame, c, Op(_)) ==
    SetColumn(frame, c, [i \in 1..Len(frame.rows) |-> Op(frame.rows[i][c])], "object")

\* lines 174-175
FormatDateColumns(frame) ==
    MapColumn(MapColumn(frame, "DateOfLoss", StrftimeCell), "DateReported", StrftimeCell)

\* lines 178-179
RECURSIVE FormatMoneyColumns(_, _)
FormatMoneyColumns(frame, k) ==
    IF k > Len(money_display_cols) THEN frame
    ELSE FormatMoneyColumns(MapColumn(frame, money_display_cols[k], MoneyCell), k + 1)

\* line 189: frame[column_order] is a new frame with those columns
MissingOf(frame, names) == {i \in 1..Len(names) : ~HasColumn(frame, names[i])}

FirstMissing(frame, names) ==
    names[CHOOSE i \in MissingOf(frame, names) : \A j \in MissingOf(frame, names) : i <= j]

SelectColumns(frame, names) ==
    [columns |-> names,
     dtypes  |-> [c \in Range(names) |-> frame.dtypes[c]],
     rows    |-> [i \in 1..Len(frame.rows) |-> [c \in Range(names) |-> frame.rows[i][c]]]]

\* variant: display_df = df, the same object
CopyFrame_Alias(h, ref) == [heap |-> h, ref |-> ref]

\* line 171: df.copy() is a new object with the same contents
CopyFrame(h, ref) == [heap |-> Append(h, h[ref]), ref |-> Len(h) + 1]

----------------------------------------------------------------------------
(* Streamlit elements *)

\* an element: what it is, the text it carries, and the line that emits it
El(kind, line) == [kind |-> kind, text |-> "", line |-> line]
ElText(kind, text, line) == [kind |-> kind, text |-> text, line |-> line]

Kinds(els) == [i \in 1..Len(els) |-> els[i].kind]

\* variant: `except Exception` placed first
Handler_Generic(e) == "Exception"

\* which except clause takes the exception, lines 203 and 206
Handler(e) == IF e.type = "FileNotFoundError" THEN "FileNotFoundError" ELSE "Exception"

----------------------------------------------------------------------------
(* The data source: the files a run can find on disk *)

MkRow(num, status, dol, dor, cause, loc, pi, pe, ri, re) ==
    ("ClaimNumber" :> num) @@ ("ClaimStatus" :> status)
    @@ ("DateOfLoss" :> dol) @@ ("DateReported" :> dor)
    @@ ("CauseOfLoss" :> cause) @@ ("Location" :> loc)
    @@ ("PaidIndemnity" :> pi) @@ ("PaidExpense" :> pe)
    @@ ("ReserveIndemnity" :> ri) @@ ("ReserveExpense" :> re)

Iso2023 == <<"2", "0", "2", "3", "-", "0", "1", "-", "0", "5">>
Iso2024 == <<"2", "0", "2", "4", "-", "0", "2", "-", "2", "9">>
Us2022  == <<"0", "3", "/", "1", "5", "/", "2", "0", "2", "2">>
Feb30   == <<"2", "0", "2", "3", "-", "0", "2", "-", "3", "0">>
NotADate == <<"s", "o", "o", "n">>
Blank == <<>>
NA == <<"N", "/", "A">>

\* the two rows of the worked example
RowA == MkRow("CLM-A", "Open", Iso2023, Iso2023, "Fire", "NY",
              <<"1", "0", "0", "0">>, <<"2", "0", "0">>, <<"0">>, <<"0">>)
RowB == MkRow("CLM-B", "Closed", Iso2024, Iso2024, "Water", "TX",
              <<"5", "0", "0">>, <<"0">>, <<"3", "0", "0">>, <<"0">>)
\* rows with malformed fields
RowC == MkRow("CLM-C", "Open", Us2022, Blank, "Fire", "TX",
              NA, <<"7">>, Blank, <<"-", "3">>)
RowD == MkRow("CLM-D", "Closed", NotADate, Us2022, "", "NY",
              <<"1", "x">>, <<"0">>, <<"2", "5">>, <<"0">>)
RowE == MkRow("CLM-E", "Open", Feb30, NotADate, "Theft", "",
              <<"-", "3">>, NA, <<"0">>, <<"1", "2", "0", "0">>)
RowF == MkRow("CLM-F", "Pending", Blank, Iso2023, "Water", "NY",
              <<"0">>, <<"t", "b", "d">>, <<"0">>, <<"0">>)

RowPool == {RowA, RowB, RowC, RowD, RowE, RowF}

MissingFile == [exists |-> FALSE, columns |-> <<>>, rows |-> <<>>]

CompleteFile(rows) == [exists |-> TRUE, columns |-> FileColumns, rows |-> rows]

\* a file whose header lacks column c
FileWithout(c, rows) ==
    [exists  |-> TRUE,
     columns |-> SelectSeq(FileColumns, LAMBDA x : x # c),
     rows    |-> [i \in 1..Len(rows) |-> [x \in Range(FileColumns) \ {c} |-> rows[i][x]]]]

ExampleFile == CompleteFile(<<RowA, RowB>>)

Files ==
    {MissingFile}
    \cup {CompleteFile(rows) : rows \in UNION {[1..n -> RowPool] : n \in 0..MaxRows}}
    \cup {FileWithout(c, <<r>>) : c \in Range(FileColumns), r \in {RowA, RowD}}

\* Files with many groups.  Row i either has a cause of its own and the
\* common location, or a location of its own and the common cause.
CausePool == <<"Hail", "Wind", "Theft", "Flood", "Quake", "Mold", "Smoke", "Frost">>
LocationPool == <<"AL", "AZ", "CA", "FL", "GA", "IL", "MA", "OH">>
AmountPool == <<<<"1">>, <<"2">>, NA>>

TopRow(i, own, shift) ==
    MkRow("CLM", IF i % 2 = 0 THEN "Open" ELSE "Closed", Iso2023, Iso2024,
          IF own = "cause" THEN CausePool[i] ELSE "Fire",
          IF own = "cause" THEN "NY" ELSE LocationPool[i],
          AmountPool[((i + shift) % 3) + 1], <<"1">>, <<"0">>, <<"0">>)

TopFiles ==
    {MissingFile, FileWithout("Location", <<RowA>>)}
    \cup {CompleteFile([i \in 1..n |-> TopRow(i, own[i], shift)]) :
            n \in 0..MaxTopRows, shift \in 0..2, own \in [1..MaxTopRows -> {"cause", "location"}]}

----------------------------------------------------------------------------
(* The run *)

Unset == <<>>

InitRun ==
    /\ strictDates \in BOOLEAN
    /\ pc = "load"
    /\ heap = <<>>
    /\ df = 0
    /\ display_df = 0
    /\ loaded = EmptyFrame
    /\ kpi = Unset
    /\ cause_summary = Unset
    /\ status_counts = Unset
    /\ location_summary = Unset
    /\ year_summary = Unset
    /\ rendered = <<>>
    /\ exc = NoException
    /\ loadCalls = 0

Init == file \in Files /\ InitRun

InitTop == file \in TopFiles /\ InitRun

\* raise: control leaves the try block
Raise(type, msg, line) ==
    /\ exc' = Raised(type, msg, line)
    /\ pc' = "except"

\* line 47: df = load_data()
Load ==
    /\ pc = "load"
    /\ loadCalls' = loadCalls + 1
    /\ LET r == load_data(file, strictDates) IN
         IF r.exc # NoException
         THEN /\ Raise(Val(r.exc).type, Val(r.exc).msg, Val(r.exc).line)
              /\ UNCHANGED <<heap, df, loaded>>
         ELSE /\ heap' = <<r.frame>>
              /\ df' = 1
              /\ loaded' = r.frame
              /\ pc' = "kpis"
              /\ exc' = exc
    /\ UNCHANGED <<file, strictDates, display_df, kpi, cause_summary, status_counts,
                   location_summary, year_summary, rendered>>

\* lines 49-86
Kpis ==
    /\ pc = "kpis"
    /\ IF ~HasColumn(heap[df], "ClaimStatus")
       THEN /\ Raise("KeyError", "ClaimStatus", 52)
            /\ UNCHANGED <<kpi, rendered>>
       ELSE /\ kpi' = Some(ComputeKpis(heap[df]))
            /\ rendered' = rendered \o <<El("kpi_header", 59), El("kpi_metrics", 63), El("divider", 86)>>
            /\ pc' = "cause"
            /\ exc' = exc
    /\ UNCHANGED <<file, strictDates, heap, df, display_df, loaded, cause_summary,
                   status_counts, location_summary, year_summary, loadCalls>>

\* df.groupby(key)['TotalIncurred'].sum().sort_values(ascending=False).head(5)
TopGroups(frame, key) ==
    {head(order, TopN) : order \in SortValuesDesc(GroupSum(frame, key, "TotalIncurred"))}

\* lines 91-109
CauseChart ==
    /\ pc = "cause"
    /\ IF ~HasColumn(heap[df], "CauseOfLoss")
       THEN /\ Raise("KeyError", "CauseOfLoss", 94)
            /\ rendered' = Append(rendered, El("cause_header", 93))
            /\ UNCHANGED cause_summary
       ELSE /\ \E top \in TopGroups(heap[df], "CauseOfLoss") : cause_summary' = Some(top)
            /\ rendered' = rendered \o <<El("cause_header", 93), El("cause_chart", 109)>>
            /\ pc' = "status"
            /\ exc' = exc
    /\ UNCHANGED <<file, strictDates, heap, df, display_df, loaded, kpi,
                   status_counts, location_summary, year_summary, loadCalls>>

\* lines 111-124
StatusChart ==
    /\ pc = "status"
    /\ status_counts' = Some(ValueCounts(heap[df], "ClaimStatus"))
    /\ rendered' = rendered \o <<El("status_header", 112), El("status_chart", 124)>>
    /\ pc' = "location"
    /\ UNCHANGED <<file, strictDates, heap, df, display_df, loaded, kpi, cause_summary,
                   location_summary, year_summary, exc, loadCalls>>

\* lines 126-144
LocationChart ==
    /\ pc = "location"
    /\ IF ~HasColumn(heap[df], "Location")
       THEN /\ Raise("KeyError", "Location", 129)
            /\ rendered' = Append(rendered, El("location_header", 128))
            /\ UNCHANGED location_summary
       ELSE /\ \E top \in TopGroups(heap[df], "Location") : location_summary' = Some(top)
            /\ rendered' = rendered \o <<El("location_header", 128), El("location_chart", 144)>>
            /\ pc' = "year"
            /\ exc' = exc
    /\ UNCHANGED <<file, strictDates, heap, df, display_df, loaded, kpi, cause_summary,
                   status_counts, year_summary, loadCalls>>

\* lines 146-162
YearChart ==
    /\ pc = "year"
    /\ year_summary' = Some(SortIndex(GroupSum(heap[df], "LossYear", "TotalIncurred")))
    /\ rendered' = rendered \o <<El("year_header", 147), El("year_chart", 162)>>
    /\ pc' = "table_header"
    /\ UNCHANGED <<file, strictDates, heap, df, display_df, loaded, kpi, cause_summary,
                   status_counts, location_summary, exc, loadCalls>>

\* lines 164-168
TableHeader ==
    /\ pc = "table_header"
    /\ rendered' = rendered \o <<El("divider", 164), El("table_header", 167), El("table_caption", 168)>>
    /\ pc' = "copy"
    /\ UNCHANGED <<file, strictDates, heap, df, display_df, loaded, kpi, cause_summary,
                   status_counts, location_summary, year_summary, exc, loadCalls>>

\* line 171: display_df = df.copy()
DisplayCopy ==
    /\ pc = "copy"
    /\ heap' = CopyFrame(heap, df).heap
    /\ display_df' = CopyFrame(heap, df).ref
    /\ pc' = "format_dates"
    /\ UNCHANGED <<file, strictDates, df, loaded, kpi, cause_summary, status_counts,
                   location_summary, year_summary, rendered, exc, loadCalls>>

\* lines 174-175: the two columns of display_df are replaced in place
FormatDates ==
    /\ pc = "format_dates"
    /\ heap' = [heap EXCEPT ![display_df] = FormatDateColumns(heap[display_df])]
    /\ pc' = "format_money"
    /\ UNCHANGED <<file, strictDates, df, display_df, loaded, kpi, cause_summary,
                   status_counts, location_summary, year_summary, rendered, exc, loadCalls>>

\* lines 178-179
FormatAmounts ==
    /\ pc = "format_money"
    /\ heap' = [heap EXCEPT ![display_df] = FormatMoneyColumns(heap[display_df], 1)]
    /\ pc' = "reorder"
    /\ UNCHANGED <<file, strictDates, df, display_df, loaded, kpi, cause_summary,
                   status_counts, location_summary, year_summary, rendered, exc, loadCalls>>

\* lines 182-189: display_df = display_df[column_order]
Reorder ==
    /\ pc = "reorder"
    /\ IF MissingOf(heap[display_df], column_order) # {}
       THEN /\ Raise("KeyError", FirstMissing(heap[display_df], column_order), 189)
            /\ UNCHANGED <<heap, display_df>>
       ELSE /\ heap' = Append(heap, SelectColumns(heap[display_df], column_order))
            /\ display_df' = Len(heap) + 1
            /\ pc' = "editor"
            /\ exc' = exc
    /\ UNCHANGED <<file, strictDates, df, loaded, kpi, cause_summary, status_counts,
                   location_summary, year_summary, rendered, loadCalls>>

\* lines 191-197: st.data_editor(display_df, disabled=True)
DataEditor ==
    /\ pc = "editor"
    /\ rendered' = Append(rendered, El("table", 191))
    /\ pc' = "footer"
    /\ UNCHANGED <<file, strictDates, heap, df, display_df, loaded, kpi, cause_summary,
                   status_counts, location_summary, year_summary, exc, loadCalls>>

\* lines 199-201
Footer ==
    /\ pc = "footer"
    /\ rendered' = rendered \o <<El("divider", 200), El("footer", 201)>>
    /\ pc' = "done"
    /\ UNCHANGED <<file, strictDates, heap, df, display_df, loaded, kpi, cause_summary,
                   status_counts, location_summary, year_summary, exc, loadCalls>>

\* lines 203-205
ExceptFileNotFound ==
    /\ pc = "except"
    /\ Handler(Val(exc)) = "FileNotFoundError"
    /\ rendered' = rendered \o <<El("file_not_found_error", 204), El("file_tip", 205)>>
    /\ pc' = "done"
    /\ UNCHANGED <<file, strictDates, heap, df, display_df, loaded, kpi, cause_summary,
                   status_counts, location_summary, year_summary, exc, loadCalls>>

\* lines 206-208: the message shown is str(e)
ExceptException ==
    /\ pc = "except"
    /\ Handler(Val(exc)) = "Exception"
    /\ rendered' = rendered \o <<ElText("error_message", Val(exc).msg, 207), El("check_tip", 208)>>
    /\ pc' = "done"
    /\ UNCHANGED <<file, strictDates, heap, df, display_df, loaded, kpi, cause_summary,
                   status_counts, location_summary, year_summary, exc, loadCalls>>

Next ==
    \/ Load
    \/ Kpis
    \/ CauseChart
    \/ StatusChart
    \/ LocationChart
    \/ YearChart
    \/ TableHeader
    \/ DisplayCopy
    \/ FormatDates
    \/ FormatAmounts
    \/ Reorder
    \/ DataEditor
    \/ Footer
    \/ ExceptFileNotFound
    \/ ExceptException

Spec == Init /\ [][Next]_vars

SpecTop == InitTop /\ [][Next]_vars

----------------------------------------------------------------------------
(* Properties *)

RECURSIVE SumIdx(_, _)
SumIdx(I, v) ==
    IF I = {} THEN 0
    ELSE LET i == CHOOSE x \in I : TRUE IN v[i] + SumIdx(I \ {i}, v)

Returned == df # 0
CompleteSource == file.exists /\ file.columns = FileColumns
Records == heap[df].rows
RowIds == 1..Len(heap[df].rows)
Incurred == [i \in RowIds |-> Val(Records[i]["TotalIncurred"])]
Paid == [i \in RowIds |-> Val(Records[i]["TotalPaid"])]

\* the amount a raw field stands for: its value when it is a number, else 0
RawAmount(tok) == IF IsIntLiteral(tok) THEN IntLiteralVal(tok) ELSE 0

RawIncurred(row) ==
    RawAmount(row["PaidIndemnity"]) + RawAmount(row["PaidExpense"])
    + RawAmount(row["ReserveIndemnity"]) + RawAmount(row["ReserveExpense"])

RawPaid(row) == RawAmount(row["PaidIndemnity"]) + RawAmount(row["PaidExpense"])

\* C1: with every column present the load returns whatever the rows hold;
\* a monetary field that is blank or not a number is 0 in the record, and
\* the record's TotalIncurred and TotalPaid are the sums of the fields that
\* are numbers: not null, and not negative unless a numeric field is.
C1_MalformedAmountIsZero ==
    (CompleteSource /\ pc # "load") =>
        /\ Returned
        /\ Len(Records) = Len(file.rows)
        /\ \A i \in RowIds :
            /\ \A c \in Range(financial_cols) :
                  ~IsIntLiteral(file.rows[i][c]) => Records[i][c] = Some(0)
            /\ Records[i]["TotalIncurred"] = Some(RawIncurred(file.rows[i]))
            /\ Records[i]["TotalPaid"] = Some(RawPaid(file.rows[i]))
            /\ (\A c \in Range(financial_cols) : RawAmount(file.rows[i][c]) >= 0)
                  => (Incurred[i] >= 0 /\ Paid[i] >= 0)

\* a loaded row whose PaidIndemnity was "N/A" and whose ReserveIndemnity was blank
C1_Witness ==
    /\ pc = "done" /\ exc = NoException
    /\ \E i \in RowIds :
          /\ file.rows[i]["PaidIndemnity"] = NA
          /\ file.rows[i]["ReserveIndemnity"] = Blank
          /\ Records[i]["PaidIndemnity"] = Some(0)
          /\ Records[i]["TotalPaid"] = Some(7)

OpenIds == {i \in RowIds : Records[i]["ClaimStatus"] = Some("Open")}

\* C2: the average cost per open claim is 0 when no record is Open, and
\* otherwise the sum of TotalIncurred over the Open records divided by
\* their number; computing it raises nothing.
C2_AvgCostPerOpenClaim ==
    /\ (Returned /\ HasColumn(heap[df], "ClaimStatus") /\ pc # "kpis") => kpi # Unset
    /\ exc # NoException => Val(exc).type # "ZeroDivisionError"
    /\ kpi # Unset =>
          LET k == Val(kpi)
              n == Cardinality(OpenIds)
          IN  /\ k.total_open_claims = n
              /\ n = 0 => k.avg_cost_per_open_claim = Whole(0)
              /\ n > 0 => /\ k.avg_cost_per_open_claim.den > 0
                          /\ k.avg_cost_per_open_claim.num * n
                               = k.avg_cost_per_open_claim.den * SumIdx(OpenIds, Incurred)

\* records were loaded, none of them Open, and the KPIs were computed
C2_Witness ==
    /\ kpi # Unset
    /\ Len(Records) > 0
    /\ OpenIds = {}
    /\ Val(kpi).total_incurred > 0
    /\ Val(kpi).avg_cost_per_open_claim = Whole(0)

Amount(i, c) == Val(Records[i][c])

\* C3: each record's TotalIncurred is the sum of its four amounts and its
\* TotalPaid the sum of the two paid amounts; the KPI totals are the sums of
\* these over all records; the two-row example gives 1200/1200 and 800/500,
\* one open claim and an average of 1200.
C3_DerivedTotals ==
    /\ Returned =>
          \A i \in RowIds :
             /\ Records[i]["TotalIncurred"]
                  = Some(Amount(i, "PaidIndemnity") + Amount(i, "PaidExpense")
                         + Amount(i, "ReserveIndemnity") + Amount(i, "ReserveExpense"))
             /\ Records[i]["TotalPaid"]
                  = Some(Amount(i, "PaidIndemnity") + Amount(i, "PaidExpense"))
    /\ kpi # Unset =>
          /\ Val(kpi).total_incurred = SumIdx(RowIds, Incurred)
          /\ Val(kpi).total_paid = SumIdx(RowIds, Paid)
    /\ (file = ExampleFile /\ kpi # Unset) =>
          /\ Incurred = <<1200, 800>>
          /\ Paid = <<1200, 500>>
          /\ Val(kpi).total_open_claims = 1
          /\ Val(kpi).avg_cost_per_open_claim = Whole(1200)

\* the run over the two-row example has computed its KPIs
C3_Witness ==
    /\ file = ExampleFile
    /\ pc = "done"
    /\ kpi = Some([total_incurred |-> 2000, total_paid |-> 1700,
                   total_open_claims |-> 1, avg_cost_per_open_claim |-> Whole(1200)])

Entries(summary) == {Val(summary)[i] : i \in 1..Len(Val(summary))}

\* the rows of a group, and what they sum to
GroupIds(key, g) == {i \in RowIds : Records[i][key] = Some(g)}
GroupTotal(key, g) == SumIdx(GroupIds(key, g), Incurred)
Groups(key) == {Val(Records[i][key]) : i \in {j \in RowIds : ~IsNull(Records[j][key])}}

\* the record is counted in a view: the view has an entry for its group
CountedIn(summary, key, i) ==
    /\ ~IsNull(Records[i][key])
    /\ \E e \in Entries(summary) :
          e.key = Val(Records[i][key]) /\ e.value = GroupTotal(key, e.key)

NullYearIds == {i \in RowIds : IsNull(Records[i]["LossYear"])}

\* what holds of every record whose DateOfLoss did not parse
C4_NullDateRecord(i) ==
    /\ ~IsNull(file.rows[i]["DateOfLoss"]) /\ IsNull(ParseAny(file.rows[i]["DateOfLoss"]))
          => IsNull(Records[i]["DateOfLoss"])
    /\ IsNull(Records[i]["DateOfLoss"]) => IsNull(Records[i]["LossYear"])

C4_YearViewSkipsNull ==
    year_summary # Unset =>
        \A e \in Entries(year_summary) :
            /\ e.value = GroupTotal("LossYear", e.key)
            /\ GroupIds("LossYear", e.key) \cap NullYearIds = {}

C4_KpiCountsAll == kpi # Unset => Val(kpi).total_incurred = SumIdx(RowIds, Incurred)

\* C4 as stated: an unparseable DateOfLoss does not fail the load, the
\* record has a null date and a null LossYear, no entry of incurred_by_year
\* counts it, and the KPI totals and both group views do count it.
C4_AsStated ==
    (CompleteSource /\ pc = "done") =>
        /\ Returned /\ exc = NoException
        /\ C4_YearViewSkipsNull
        /\ C4_KpiCountsAll
        /\ \A i \in RowIds :
              /\ C4_NullDateRecord(i)
              /\ IsNull(Records[i]["LossYear"]) =>
                    /\ CountedIn(cause_summary, "CauseOfLoss", i)
                    /\ CountedIn(location_summary, "Location", i)

\* a group view drops a record whose group key is null, and keeps five groups
InView(summary, key, i) ==
    IF IsNull(Records[i][key]) THEN \A e \in Entries(summary) : i \notin GroupIds(key, e.key)
    ELSE Cardinality(Groups(key)) <= TopN => CountedIn(summary, key, i)

\* C4 (amended): as above, except that a group view counts the record only
\* when its CauseOfLoss (Location) is not null and its group is among the
\* five the view returns.
C4_UnparseableDateOfLoss ==
    (CompleteSource /\ pc = "done") =>
        /\ Returned /\ exc = NoException
        /\ C4_YearViewSkipsNull
        /\ C4_KpiCountsAll
        /\ \A i \in RowIds :
              /\ C4_NullDateRecord(i)
              /\ IsNull(Records[i]["LossYear"]) =>
                    /\ InView(cause_summary, "CauseOfLoss", i)
                    /\ InView(location_summary, "Location", i)

\* a record with an unparseable date next to a dated one: the year view has
\* the dated one only, the cause view counts the undated one
C4_Witness ==
    /\ pc = "done" /\ exc = NoException
    /\ \E i \in RowIds :
          /\ file.rows[i]["DateOfLoss"] = Feb30
          /\ IsNull(Records[i]["LossYear"])
          /\ Incurred[i] # 0
          /\ CountedIn(cause_summary, "CauseOfLoss", i)
          /\ ~CountedIn(location_summary, "Location", i)
    /\ Len(Val(year_summary)) = 1

Descending(entries) ==
    \A i \in 1..Len(entries) : \A j \in i..Len(entries) : entries[i].value >= entries[j].value

TopView(summary, key) ==
    summary # Unset =>
        LET entries == Val(summary)
            keys == {entries[i].key : i \in 1..Len(entries)}
        IN  /\ Len(entries) <= TopN
            /\ Cardinality(keys) = Len(entries)
            /\ keys \subseteq Groups(key)
            /\ \A i \in 1..Len(entries) : entries[i].value = GroupTotal(key, entries[i].key)
            /\ Descending(entries)
            /\ \A g \in Groups(key) \ keys :
                  \A i \in 1..Len(entries) : GroupTotal(key, g) <= entries[i].value
            /\ Cardinality(Groups(key)) <= TopN => keys = Groups(key)

\* C5: the CauseOfLoss view and the Location view have at most five entries,
\* one per group, each with the sum of TotalIncurred over the records of
\* its group, in descending order of that sum, and no group left out has a
\* larger sum than a group returned.
C5_TopFiveByGroup ==
    /\ TopView(cause_summary, "CauseOfLoss")
    /\ TopView(location_summary, "Location")

\* more than five causes: five are returned and a tie is cut
C5_Witness ==
    /\ pc = "done" /\ exc = NoException
    /\ Cardinality(Groups("CauseOfLoss")) > TopN
    /\ Len(Val(cause_summary)) = TopN
    /\ \E g \in Groups("CauseOfLoss") :
          /\ \A e \in Entries(cause_summary) : e.key # g
          /\ GroupTotal("CauseOfLoss", g) = Val(cause_summary)[TopN].value

\* C6: when the file is not there the load is tried once, the not-found
\* notice and its tip are all the run shows, and the generic error message
\* is not shown.
C6_DataSourceMissing ==
    /\ loadCalls <= 1
    /\ pc # "load" => loadCalls = 1
    /\ ~file.exists =>
          /\ pc \in {"load", "except", "done"}
          /\ pc = "except" => (Val(exc).type = "FileNotFoundError" /\ rendered = <<>>)
          /\ pc = "done" => Kinds(rendered) = <<"file_not_found_error", "file_tip">>
          /\ \A i \in 1..Len(rendered) : rendered[i].kind # "error_message"
          /\ ~Returned /\ kpi = Unset

C6_Witness ==
    /\ ~file.exists
    /\ pc = "done"
    /\ loadCalls = 1
    /\ Len(rendered) = 2

YearEntries == Val(year_summary)

\* C10: the year view has one entry per distinct non-null LossYear, with the
\* sum of TotalIncurred over the records of that year, in strictly ascending
\* order of year; its entries sum to the KPI total less the records without
\* a LossYear.
C10_IncurredByYear ==
    year_summary # Unset =>
        /\ {YearEntries[i].key : i \in 1..Len(YearEntries)} = Groups("LossYear")
        /\ Len(YearEntries) = Cardinality(Groups("LossYear"))
        /\ \A i \in 1..Len(YearEntries) :
              YearEntries[i].value = GroupTotal("LossYear", YearEntries[i].key)
        /\ \A i \in 1..Len(YearEntries) : \A j \in (i + 1)..Len(YearEntries) :
              YearEntries[i].key < YearEntries[j].key
        /\ SumIdx(1..Len(YearEntries), [i \in 1..Len(YearEntries) |-> YearEntries[i].value])
              = Val(kpi).total_incurred - SumIdx(NullYearIds, Incurred)

\* three years out of file order, and a record without a year
C10_Witness ==
    /\ pc = "done" /\ exc = NoException
    /\ Len(YearEntries) >= 2
    /\ \E i \in RowIds : \E j \in RowIds :
          /\ i < j
          /\ ~IsNull(Records[i]["LossYear"]) /\ ~IsNull(Records[j]["LossYear"])
          /\ Val(Records[i]["LossYear"]) > Val(Records[j]["LossYear"])
    /\ \E i \in NullYearIds : Incurred[i] # 0

\* the file with its rows in the order p[1], p[2], ...
Reordered(f, p) == [f EXCEPT !.rows = [i \in 1..Len(f.rows) |-> f.rows[p[i]]]]

\* C7: loading is independent of row order: in whatever order the rows of
\* the file are given, each row gets the record it gets now.
C7_RowOrderIndependent ==
    (CompleteSource /\ pc = "kpis") =>
        \A p \in Permutations(1..Len(file.rows)) :
            LET again == load_data(Reordered(file, p), strictDates)
            IN  /\ again.exc = NoException
                /\ again.frame.rows = [i \in RowIds |-> Records[p[i]]]

SameFrame(a, b) == a.columns = b.columns /\ a.dtypes = b.dtypes /\ a.rows = b.rows

\* C8: once load_data has returned, no step changes the frame `df` refers
\* to: it stays what load_data returned.
C8_RecordSetUnchanged ==
    [][Returned => (df' = df /\ SameFrame(heap'[df'], heap[df]) /\ SameFrame(heap[df], loaded))]_vars

\* the table was shown from a formatted, reordered frame, and df still
\* holds what was loaded
C8_Witness ==
    /\ pc = "done" /\ exc = NoException
    /\ Len(Records) > 0
    /\ display_df # df
    /\ heap[display_df].columns = column_order
    /\ heap[display_df].dtypes["TotalIncurred"] = "object"
    /\ heap[df].dtypes["TotalIncurred"] = "float64"
    /\ SameFrame(heap[df], loaded)

\* the elements of the report proper, without what the handler added
Report == SubSeq(rendered, 1, Len(rendered) - 2)

====
